---------------------------- MODULE Spec2Model ----------------------------
(***************************************************************************)
(* A model of ssh_certificate_parser (src/ssh_certificate_parser/          *)
(* __init__.py): the field readers take_u32, take_u64,                     *)
(* take_pascal_bytestring, take_pascal_string, the list reader take_list   *)
(* and the certificate decoder SSHCertificate.from_bytes.                  *)
(*                                                                         *)
(* Representation.  A byte string is a sequence of numbers 0..255.  A text *)
(* (Python str) is a sequence of code points.  An unpacked integer is a    *)
(* sequence of 16-bit limbs, most significant first (two limbs for '!L',   *)
(* four for '!Q'): TLC's integers are 32 bits wide and cannot hold them.   *)
(* A call is one behaviour: fn names the function called, byte_array its   *)
(* argument and pc the position in its code ("idle" before the call).  The *)
(* call ends with pc = "returned" (ret holds the value) or pc = "raised"   *)
(* (exc holds the exception).  locals are the local variables of           *)
(* from_bytes, lframe those of take_list, steps the statements of          *)
(* from_bytes completed so far.                                            *)
(***************************************************************************)
EXTENDS Integers, Sequences, FiniteSets, TLC

VARIABLES fn, byte_array, pc, locals, lframe, steps, ret, exc

vars == <<fn, byte_array, pc, locals, lframe, steps, ret, exc>>

---------------------------------------------------------------------------
(* Python slices and exceptions *)

Min(a, b) == IF a <= b THEN a ELSE b

\* The element of a set of one element.  Only({e(x) : x \in {v}}) is e(v)
\* with v evaluated once, however often e uses it.
Only(S) == CHOOSE x \in S : TRUE

\* s[:n] for a non-negative n
Prefix(s, n) == SubSeq(s, 1, Min(n, Len(s)))

\* s[n:] for a non-negative n
Drop(s, n) == SubSeq(s, n + 1, Len(s))

\* min(n, size) for an unpacked '!L' value n = <<hi, lo>> and a length size:
\* the number of elements the slices [:n] and [n:] cut at.
Clamp(n, size) ==
    IF n[1] >= 32768 THEN size ELSE Min(n[1] * 65536 + n[2], size)

NoExc == [type |-> "none", arg |-> <<>>]

\* What a function hands back: its value and the unconsumed tail, or the
\* exception it raised.
Return(val, rest) == [exc |-> NoExc, val |-> val, rest |-> rest]

Raise(type, arg) == [exc |-> [type |-> type, arg |-> arg], val |-> <<>>, rest |-> <<>>]

---------------------------------------------------------------------------
(* struct.unpack, bytes.decode('utf-8') *)

\* unpack reading each pair of bytes least significant first (a '<' format)
unpack_little_endian(b) == [i \in 1..(Len(b) \div 2) |-> b[2 * i] * 256 + b[2 * i - 1]]

\* struct.unpack('!L', b)[0] and struct.unpack('!Q', b)[0]: the big-endian
\* value of b, as 16-bit limbs.
unpack(b) == [i \in 1..(Len(b) \div 2) |-> b[2 * i - 1] * 256 + b[2 * i]]

IsCont(b, i) == i <= Len(b) /\ b[i] >= 128 /\ b[i] <= 191

\* The number of bytes of the UTF-8 sequence starting at b[i], 0 when the
\* bytes there are not a valid sequence (a stray continuation byte, an
\* overlong form, a surrogate, a value above U+10FFFF, a cut sequence).
utf8_width(b, i) ==
    LET c == b[i]
        two == IsCont(b, i + 1)
        three == two /\ IsCont(b, i + 2)
        four == three /\ IsCont(b, i + 3)
    IN  IF c < 128 THEN 1
        ELSE IF c >= 194 /\ c <= 223 THEN (IF two THEN 2 ELSE 0)
        ELSE IF c = 224 THEN (IF three /\ b[i + 1] >= 160 THEN 3 ELSE 0)
        ELSE IF c = 237 THEN (IF three /\ b[i + 1] <= 159 THEN 3 ELSE 0)
        ELSE IF c >= 225 /\ c <= 239 THEN (IF three THEN 3 ELSE 0)
        ELSE IF c = 240 THEN (IF four /\ b[i + 1] >= 144 THEN 4 ELSE 0)
        ELSE IF c = 244 THEN (IF four /\ b[i + 1] <= 143 THEN 4 ELSE 0)
        ELSE IF c >= 241 /\ c <= 243 THEN (IF four THEN 4 ELSE 0)
        ELSE 0

utf8_codepoint(b, i, w) ==
    IF w = 1 THEN b[i]
    ELSE IF w = 2 THEN (b[i] - 192) * 64 + (b[i + 1] - 128)
    ELSE IF w = 3 THEN (b[i] - 224) * 4096 + (b[i + 1] - 128) * 64 + (b[i + 2] - 128)
    ELSE (b[i] - 240) * 262144 + (b[i + 1] - 128) * 4096
         + (b[i + 2] - 128) * 64 + (b[i + 3] - 128)

\* The indices of b where a UTF-8 sequence starts in a left-to-right scan:
\* in well-formed UTF-8 these are the bytes that are no continuation byte.
utf8_starts(b) ==
    LET lead(i) == ~IsCont(b, i)
    IN  SelectSeq([i \in 1..Len(b) |-> i], lead)

\* The scan accepts b when it starts at a lead byte and every sequence is
\* valid and ends where the next one starts or where b ends.
utf8_valid(b, starts) ==
    /\ b # <<>> => ~IsCont(b, 1)
    /\ \A k \in 1..Len(starts) :
          /\ utf8_width(b, starts[k]) > 0
          /\ ~IsCont(b, starts[k] + utf8_width(b, starts[k]))

\* b.decode('utf-8'): ok and the text, or not ok (UnicodeDecodeError)
decode_utf8(b) ==
    Only({IF utf8_valid(v, starts)
          THEN [ok |-> TRUE,
                text |-> [k \in 1..Len(starts) |->
                            utf8_codepoint(v, starts[k], utf8_width(v, starts[k]))]]
          ELSE [ok |-> FALSE, text |-> <<>>] :
          v \in {b}, starts \in {utf8_starts(b)}})

---------------------------------------------------------------------------
(* The field readers *)

take_u32(b) ==
    IF Len(Prefix(b, 4)) # 4 THEN Raise("struct.error", <<>>)
    ELSE Return(unpack(Prefix(b, 4)), Drop(b, 4))

take_u64(b) ==
    IF Len(Prefix(b, 8)) # 8 THEN Raise("struct.error", <<>>)
    ELSE Return(unpack(Prefix(b, 8)), Drop(b, 8))

take_pascal_bytestring(b) ==
    LET u == take_u32(b)
        cut == Clamp(u.val, Len(u.rest))
    IN  IF u.exc # NoExc THEN u
        ELSE Return(Prefix(u.rest, cut), Drop(u.rest, cut))

take_pascal_string(b) ==
    LET u == take_u32(b)
        cut == Clamp(u.val, Len(u.rest))
        d == decode_utf8(Prefix(u.rest, cut))
    IN  IF u.exc # NoExc THEN u
        ELSE IF ~d.ok THEN Raise("UnicodeDecodeError", <<>>)
        ELSE Return(d.text, Drop(u.rest, cut))

---------------------------------------------------------------------------
(* str.split(' '), base64.b64decode *)

\* The index of the first space (code point 32) of s at or after i,
\* Len(s) + 1 when none.
find_space(s, i) ==
    LET at == {j \in i..Len(s) : s[j] = 32}
    IN  IF at = {} THEN Len(s) + 1 ELSE CHOOSE j \in at : \A k \in at : j <= k

has_space(s) == find_space(s, 1) <= Len(s)

\* s.split(' ')[1], for an s that holds a space: what lies between the first
\* space and the next one (or the end).
second_token(s) ==
    LET first == find_space(s, 1)
    IN  SubSeq(s, first + 1, find_space(s, first + 1) - 1)

\* binascii's table_a2b_base64: the 6-bit value of a character of the
\* alphabet, 64 for any other character.
b64_value(c) ==
    IF c >= 65 /\ c <= 90 THEN c - 65
    ELSE IF c >= 97 /\ c <= 122 THEN c - 71
    ELSE IF c >= 48 /\ c <= 57 THEN c + 4
    ELSE IF c = 43 THEN 62
    ELSE IF c = 47 THEN 63
    ELSE 64

is_b64_char(c) == c = 61 \/ b64_value(c) < 64

is_b64_data(c) == c # 61

\* The byte a2b_base64 writes k-th, from the 6-bit values d of the data
\* characters: the quad of byte k starts after 4 * ((k - 1) \div 3) values.
a2b_byte(d, k) ==
    LET q == 4 * ((k - 1) \div 3)
        r == (k - 1) % 3
    IN  IF r = 0 THEN d[q + 1] * 4 + d[q + 2] \div 16
        ELSE IF r = 1 THEN (d[q + 2] % 16) * 16 + d[q + 3] \div 4
        ELSE (d[q + 3] % 4) * 64 + d[q + 4]

\* The index in f (characters of the alphabet and pads) at which the loop of
\* a2b_base64 stops, Len(f) + 1 when it reads all of f.  At a pad ('=', 61)
\* with quad_pos >= 2 the loop counts the pad and stops once quad_pos + pads
\* >= 4, and a data character resets pads: it stops at the first pad met
\* with quad_pos = 3, or with quad_pos = 2 right after another pad.
a2b_stop(f) ==
    LET quad_pos(i) == Cardinality({j \in 1..(i - 1) : f[j] # 61}) % 4
        stops == {i \in 1..Len(f) :
                    /\ f[i] = 61
                    /\ \/ quad_pos(i) = 3
                       \/ quad_pos(i) = 2 /\ i > 1 /\ f[i - 1] = 61}
    IN  IF stops = {} THEN Len(f) + 1
        ELSE CHOOSE i \in stops : \A j \in stops : i <= j

\* The bytes of the 6-bit values d: three for each full quad, one or two for
\* a last quad of two or three values.
a2b_bytes(d) ==
    [k \in 1..(3 * (Len(d) \div 4)
               + (IF Len(d) % 4 = 0 THEN 0 ELSE (Len(d) % 4) - 1)) |->
       a2b_byte(d, k)]

\* binascii.a2b_base64 without strict_mode.  Its loop skips every character
\* outside the alphabet and stops at a complete pad sequence; data characters
\* that leave quad_pos # 0 at the end of the input are an error.
a2b_base64(s) ==
    Only({Only({Only({IF stop > Len(f) /\ Len(d) % 4 # 0
                      THEN Raise("binascii.Error", <<>>)
                      ELSE Return(a2b_bytes(d), <<>>) :
                      d \in {[i \in 1..Len(chars) |-> b64_value(chars[i])]}}) :
                stop \in {a2b_stop(f)},
                chars \in {SelectSeq(SubSeq(f, 1, a2b_stop(f) - 1), is_b64_data)}}) :
          f \in {SelectSeq(s, is_b64_char)}})

\* base64.b64decode(s) for a str s: s is first encoded as ASCII.
b64decode(s) ==
    IF \E i \in 1..Len(s) : s[i] > 127 THEN Raise("ValueError", <<>>)
    ELSE a2b_base64(s)

---------------------------------------------------------------------------
(* Constants of the decoder *)

\* 'ssh-rsa-cert-v01@openssh.com'
RSA_CERT == <<115, 115, 104, 45, 114, 115, 97, 45, 99, 101, 114, 116, 45, 118,
              48, 49, 64, 111, 112, 101, 110, 115, 115, 104, 46, 99, 111, 109>>

\* 'ssh-ed25519-cert-v01@openssh.com'
ED25519_CERT == <<115, 115, 104, 45, 101, 100, 50, 53, 53, 49, 57, 45, 99, 101,
                  114, 116, 45, 118, 48, 49, 64, 111, 112, 101, 110, 115, 115,
                  104, 46, 99, 111, 109>>

\* 'ssh-dss-cert-v01@openssh.com'
DSS_CERT == <<115, 115, 104, 45, 100, 115, 115, 45, 99, 101, 114, 116, 45, 118,
              48, 49, 64, 111, 112, 101, 110, 115, 115, 104, 46, 99, 111, 109>>

\* 'ssh-rsa'
SSH_RSA == <<115, 115, 104, 45, 114, 115, 97>>

\* pubkey_fields with the last branch taken for every other key type
pubkey_fields_default(key_type) ==
    IF key_type = RSA_CERT THEN <<"nonce", "n", "e">>
    ELSE IF key_type = ED25519_CERT THEN <<"nonce", "pubkey">>
    ELSE <<"nonce", "p", "q", "g", "pubkey">>

\* The names of the key-material fields from_bytes reads for a key type, in
\* the order it reads them; none for a key type it does not know.
pubkey_fields(key_type) ==
    IF key_type = RSA_CERT THEN <<"nonce", "n", "e">>
    ELSE IF key_type = ED25519_CERT THEN <<"nonce", "pubkey">>
    ELSE IF key_type = DSS_CERT THEN <<"nonce", "p", "q", "g", "pubkey">>
    ELSE <<>>

\* CertType with a third member, 3
CertType_three(value) ==
    IF value = <<0, 1>> THEN "SSH2_CERT_TYPE_USER"
    ELSE IF value = <<0, 2>> THEN "SSH2_CERT_TYPE_HOST"
    ELSE IF value = <<0, 3>> THEN "SSH2_CERT_TYPE_3"
    ELSE ""

\* CertType(value): the member with that value, by name; "" when there is
\* none (the enum raises ValueError).
CertType(value) ==
    IF value = <<0, 1>> THEN "SSH2_CERT_TYPE_USER"
    ELSE IF value = <<0, 2>> THEN "SSH2_CERT_TYPE_HOST"
    ELSE ""

\* a <= b for two unpacked integers of the same number of limbs
RECURSIVE wide_le(_, _)
wide_le(a, b) ==
    IF a = <<>> THEN TRUE
    ELSE IF Head(a) # Head(b) THEN Head(a) < Head(b)
    ELSE wide_le(Tail(a), Tail(b))

\* The timestamp of datetime.max, 9999-12-31 23:59:59 = 253402300799 =
\* 0x3AFFF4417F: utcfromtimestamp raises above it.
MAX_TIMESTAMP == <<0, 58, 65524, 16767>>

\* The exceptions datetime.utcfromtimestamp(ts) may raise, none when it
\* returns.  A value that does not fit the platform's time_t is an
\* OverflowError; a smaller one past datetime.max is a ValueError (year out
\* of range) or, where the C library's gmtime gives up first, an OSError.
utcfromtimestamp_errors(ts) ==
    IF wide_le(ts, MAX_TIMESTAMP) THEN {}
    ELSE IF ts[1] >= 32768 THEN {"OverflowError"}
    ELSE {"ValueError", "OSError"}

\* datetime.utcfromtimestamp(ts), for a ts it accepts: the datetime, named by
\* the second since the epoch it denotes.
utcfromtimestamp(ts) == [utc |-> ts]

---------------------------------------------------------------------------
(* The wire format, written out: the inputs of the calls *)

MaxItems == 2

MaxBufLen == 5

pack_limb(x) == <<x \div 256, x % 256>>

RECURSIVE pack(_)
\* struct.pack('!L', v) and struct.pack('!Q', v) for v in 16-bit limbs
pack(limbs) ==
    IF limbs = <<>> THEN <<>> ELSE pack_limb(Head(limbs)) \o pack(Tail(limbs))

\* The '!L' limbs of a length below 2^16
u32(n) == <<0, n>>

put_bytes(b) == pack(u32(Len(b))) \o b

encode_codepoint(c) ==
    IF c < 128 THEN <<c>>
    ELSE IF c < 2048 THEN <<192 + c \div 64, 128 + (c % 64)>>
    ELSE IF c < 65536
    THEN <<224 + c \div 4096, 128 + ((c \div 64) % 64), 128 + (c % 64)>>
    ELSE <<240 + c \div 262144, 128 + ((c \div 4096) % 64),
           128 + ((c \div 64) % 64), 128 + (c % 64)>>

RECURSIVE encode_utf8(_)
\* text.encode('utf-8'), the halves of the text encoded one after the other
encode_utf8(text) ==
    IF text = <<>> THEN <<>>
    ELSE IF Len(text) = 1 THEN encode_codepoint(text[1])
    ELSE encode_utf8(SubSeq(text, 1, Len(text) \div 2))
         \o encode_utf8(SubSeq(text, Len(text) \div 2 + 1, Len(text)))

put_text(text) == put_bytes(encode_utf8(text))

RECURSIVE concat_texts(_)
concat_texts(items) ==
    IF items = <<>> THEN <<>>
    ELSE put_text(Head(items)) \o concat_texts(Tail(items))

put_list(items) == put_bytes(concat_texts(items))

RECURSIVE concat_bytes(_)
concat_bytes(parts) ==
    IF parts = <<>> THEN <<>>
    ELSE put_bytes(Head(parts)) \o concat_bytes(Tail(parts))

put_ca(c) == put_text(c.ca_type) \o put_bytes(c.modulus) \o put_bytes(c.exponent)

\* The certificate blob of PROTOCOL.certkeys for the fields of c
put_cert(c) ==
    put_text(c.key_type) \o concat_bytes(c.parts)
    \o pack(c.serial) \o pack(c.cert_type) \o put_text(c.key_id)
    \o put_list(c.principals) \o pack(c.valid_after) \o pack(c.valid_before)
    \o put_list(c.crits) \o put_list(c.exts) \o put_bytes(c.reserved)
    \o put_bytes(put_ca(c)) \o c.signature

b64_char(v) ==
    IF v < 26 THEN v + 65
    ELSE IF v < 52 THEN v + 71
    ELSE IF v < 62 THEN v - 4
    ELSE IF v = 62 THEN 43
    ELSE 47

\* The k-th character of base64.b64encode(b)
b64encode_char(b, k) ==
    LET g == 3 * ((k - 1) \div 4)
        r == (k - 1) % 4
        b1 == b[g + 1]
        b2 == IF g + 2 <= Len(b) THEN b[g + 2] ELSE 0
        b3 == IF g + 3 <= Len(b) THEN b[g + 3] ELSE 0
    IN  IF r = 0 THEN b64_char(b1 \div 4)
        ELSE IF r = 1 THEN b64_char((b1 % 4) * 16 + b2 \div 16)
        ELSE IF r = 2
        THEN (IF g + 2 > Len(b) THEN 61 ELSE b64_char((b2 % 16) * 4 + b3 \div 64))
        ELSE (IF g + 3 > Len(b) THEN 61 ELSE b64_char(b3 % 64))

b64encode(b) ==
    [k \in 1..(4 * ((Len(b) + 2) \div 3)) |-> b64encode_char(b, k)]

Prefixes(b) == {SubSeq(b, 1, n) : n \in 0..Len(b)}

SeqsUpTo(S, n) == UNION {[1..k -> S] : k \in 0..n}

\* 'ssh-unknown-cert-v01@openssh.com'
UNKNOWN_CERT == <<115, 115, 104, 45, 117, 110, 107, 110, 111, 119, 110, 45, 99,
                  101, 114, 116, 45, 118, 48, 49, 64, 111, 112, 101, 110, 115,
                  115, 104, 46, 99, 111, 109>>

\* 'ssh-ed25519'
SSH_ED25519 == <<115, 115, 104, 45, 101, 100, 50, 53, 53, 49, 57>>

\* '' and 'b' followed by e-acute (two bytes of UTF-8)
SampleTexts == {<<>>, <<98, 233>>}

SampleLists == SeqsUpTo(SampleTexts, MaxItems)

\* 42, 0x0102030405060708, the timestamp of datetime.max, the second after
\* it, and 2^64 - 1 (the valid_before of a certificate that never expires)
SampleU64 == {<<0, 0, 0, 42>>, <<258, 772, 1286, 1800>>, MAX_TIMESTAMP,
              <<0, 58, 65524, 16768>>, <<65535, 65535, 65535, 65535>>}

SampleU32 == {<<0, 0>>, <<0, 1>>, <<0, 2>>, <<0, 3>>, <<1, 1>>, <<513, 2>>}

SampleKeyTypes == {RSA_CERT, ED25519_CERT, DSS_CERT, UNKNOWN_CERT, SSH_RSA}

\* Key material for a key type, every field different from the others
SampleParts(key_type) ==
    IF key_type = RSA_CERT THEN << <<1>>, <<2, 3>>, <<1, 0, 1>> >>
    ELSE IF key_type = ED25519_CERT THEN << <<1>>, <<4, 5>> >>
    ELSE IF key_type = DSS_CERT THEN << <<1>>, <<6>>, <<7>>, <<8>>, <<9, 10>> >>
    ELSE << <<1>> >>

BaseCert ==
    [key_type |-> RSA_CERT, parts |-> SampleParts(RSA_CERT),
     serial |-> <<0, 0, 0, 42>>, cert_type |-> <<0, 1>>, key_id |-> <<107, 233>>,
     principals |-> << <<97, 108>> >>, valid_after |-> <<0, 0, 1, 2>>,
     valid_before |-> <<0, 0, 3, 4>>, crits |-> <<>>,
     exts |-> << <<98, 233>>, <<>> >>, reserved |-> <<>>, ca_type |-> SSH_RSA,
     modulus |-> <<0, 200, 17>>, exponent |-> <<1, 0, 1>>,
     signature |-> <<9, 8, 7>>]

KeyedCert(k) == [BaseCert EXCEPT !.key_type = k, !.parts = SampleParts(k)]

SampleCerts ==
    {KeyedCert(k) : k \in SampleKeyTypes}
    \cup {[KeyedCert(k) EXCEPT !.principals = l] : k \in SampleKeyTypes, l \in SampleLists}
    \cup {[KeyedCert(k) EXCEPT !.valid_before = v] : k \in SampleKeyTypes, v \in SampleU64}
    \cup {[BaseCert EXCEPT !.serial = v] : v \in SampleU64}
    \cup {[BaseCert EXCEPT !.cert_type = v] : v \in SampleU32}
    \cup {[BaseCert EXCEPT !.key_id = t] : t \in SampleTexts \cup {<<97>>}}
    \cup {[BaseCert EXCEPT !.valid_after = v] : v \in SampleU64}
    \cup {[BaseCert EXCEPT !.crits = l] : l \in SampleLists}
    \cup {[BaseCert EXCEPT !.exts = l] : l \in SampleLists}
    \cup {[BaseCert EXCEPT !.reserved = b] : b \in {<<>>, <<5, 6>>}}
    \cup {[BaseCert EXCEPT !.ca_type = t] : t \in {SSH_RSA, SSH_ED25519, <<>>}}
    \cup {[BaseCert EXCEPT !.exponent = b] : b \in {<<>>, <<3>>}}
    \cup {[BaseCert EXCEPT !.signature = b] : b \in {<<>>, <<9, 8, 7>>}}

\* The text handed to from_bytes for a blob: the bare base64 payload, or a
\* public-key line '<type> <base64> <comment>'.
BareLine(blob) == b64encode(blob)

KeyLine(type, blob) == type \o <<32>> \o b64encode(blob) \o <<32, 109, 101>>

\* The wire encoding of each sample certificate
Wire == [c \in SampleCerts |-> put_cert(c)]

CertLines ==
    {BareLine(Wire[c]) : c \in SampleCerts}
    \cup {KeyLine(k, Wire[KeyedCert(k)]) : k \in SampleKeyTypes}
    \cup {BareLine(b) : b \in UNION {Prefixes(Wire[KeyedCert(k)]) :
                                       k \in {RSA_CERT, ED25519_CERT, DSS_CERT}}}
    \cup Prefixes(BareLine(Wire[BaseCert]))
    \cup {BareLine(Wire[BaseCert]) \o <<32>>, <<32>>, <<233>>}

SampleBytes == {0, 1, 233}

RawBuffers == SeqsUpTo(SampleBytes, MaxBufLen)

FieldBuffers ==
    RawBuffers
    \cup UNION {Prefixes(put_bytes(b) \o t) :
                  b \in {<<195, 169>>, <<97, 98, 99>>}, t \in {<<>>, <<7>>}}
    \cup UNION {Prefixes(pack(v) \o t) : v \in SampleU64, t \in {<<>>, <<7, 7>>}}

\* Envelopes of whole items followed by what is no whole item, and every
\* truncation of them
ListBuffers ==
    RawBuffers
    \cup UNION {Prefixes(put_bytes(concat_texts(l) \o junk) \o t) :
                  l \in SampleLists,
                  junk \in {<<>>, <<0>>, <<0, 0, 0, 2, 97>>, <<0, 0, 0, 1, 233>>},
                  t \in {<<>>, <<7>>}}

Functions ==
    {"take_u32", "take_u64", "take_pascal_bytestring", "take_pascal_string",
     "take_list", "from_bytes"}

Inputs(f) ==
    IF f = "from_bytes" THEN CertLines
    ELSE IF f = "take_list" THEN ListBuffers
    ELSE FieldBuffers

---------------------------------------------------------------------------
(* The calls *)

\* pubkey_parts = {}
EmptyDict == [name \in {} |-> <<>>]

\* The local variables of from_bytes before it has assigned any
NoLocals ==
    [blob |-> <<>>, key_type |-> <<>>, pubkey_parts |-> EmptyDict,
     serial |-> <<>>, cert_type |-> "", key_id |-> <<>>, principals |-> <<>>,
     valid_after |-> [utc |-> <<>>], valid_before |-> [utc |-> <<>>],
     crits |-> <<>>, exts |-> <<>>, unknown |-> <<>>, raw_ca |-> <<>>,
     ca_cert_type |-> <<>>, raw_ca_rest |-> <<>>,
     ca_cert |-> [raw |-> <<>>, modulus |-> <<>>, exponent |-> <<>>],
     signature |-> <<>>]

NoFrame == [site |-> "", overall |-> <<>>, lst |-> <<>>, rest |-> <<>>]

Entry(f) ==
    IF f = "from_bytes" THEN "b64decode"
    ELSE IF f = "take_list" THEN "take_list"
    ELSE "call"

Init ==
    /\ fn = ""
    /\ byte_array = <<>>
    /\ pc = "idle"
    /\ locals = NoLocals
    /\ lframe = NoFrame
    /\ steps = <<>>
    /\ ret = <<>>
    /\ exc = NoExc

\* A caller calls one of the functions with an argument
invoke ==
    /\ pc = "idle"
    /\ \E f \in Functions :
          \E b \in Inputs(f) :
             /\ fn' = f
             /\ byte_array' = b
             /\ pc' = Entry(f)
    /\ UNCHANGED <<locals, lframe, steps, ret, exc>>

\* Propagate with the exception caught and what was read so far returned
Propagate_partial(e) ==
    /\ pc' = "returned"
    /\ ret' = [serial |-> locals.serial, key_id |-> locals.key_id,
               key_type |-> locals.key_type]
    /\ exc' = e
    /\ UNCHANGED <<fn, byte_array, locals, lframe, steps>>

\* An exception raised in a call leaves it: nothing is returned.
Propagate(e) ==
    /\ pc' = "raised"
    /\ exc' = e
    /\ UNCHANGED <<fn, byte_array, locals, lframe, steps, ret>>

\* A statement of from_bytes completed: its assignments made, control at the
\* next statement.
Advance(name, assigned, next) ==
    /\ locals' = assigned
    /\ pc' = next
    /\ steps' = Append(steps, name)
    /\ UNCHANGED <<fn, byte_array, lframe, ret, exc>>

\* A field reader called on its own
CallReader(name, result) ==
    /\ fn = name
    /\ pc = "call"
    /\ \E r \in {result} :
          IF r.exc # NoExc THEN Propagate(r.exc)
          ELSE /\ ret' = <<r.val, r.rest>>
               /\ pc' = "returned"
               /\ UNCHANGED <<fn, byte_array, locals, lframe, steps, exc>>

call_take_u32 == CallReader("take_u32", take_u32(byte_array))

call_take_u64 == CallReader("take_u64", take_u64(byte_array))

call_take_pascal_bytestring ==
    CallReader("take_pascal_bytestring", take_pascal_bytestring(byte_array))

call_take_pascal_string ==
    CallReader("take_pascal_string", take_pascal_string(byte_array))

---------------------------------------------------------------------------
(* take_list *)

\* The places take_list is called from: the three lists of from_bytes, and
\* the call of take_list on its own.
ListSites == {"principals", "crits", "exts", "take_list"}

\* The argument byte_array of take_list
list_arg == IF fn = "take_list" THEN byte_array ELSE locals.blob

\* A callback that consumes nothing when the item is empty
per_item_callback_stuck(b) ==
    LET r == take_pascal_string(b)
    IN  IF r.exc = NoExc /\ r.val = <<>> THEN Return(r.val, b) ELSE r

\* The callback every call of take_list passes
per_item_callback(b) == take_pascal_string(b)

AfterList(site) ==
    IF site = "principals" THEN "valid_after"
    ELSE IF site = "crits" THEN "exts"
    ELSE "unknown"

\* overall, rest = take_pascal_bytestring(byte_array); lst = []
take_list_begin ==
    /\ pc \in ListSites
    /\ \E r \in {take_pascal_bytestring(list_arg)} :
           IF r.exc # NoExc THEN Propagate(r.exc)
           ELSE /\ lframe' = [site |-> pc, overall |-> r.val, lst |-> <<>>,
                              rest |-> r.rest]
                /\ pc' = "take_list_loop"
                /\ UNCHANGED <<fn, byte_array, locals, steps, ret, exc>>

\* take_list_item with lst.insert(0, item) for lst.append(item)
take_list_item_prepend ==
    /\ pc = "take_list_loop"
    /\ lframe.overall # <<>>
    /\ \E r \in {per_item_callback(lframe.overall)} :
           IF r.exc # NoExc THEN Propagate(r.exc)
           ELSE /\ lframe' = [lframe EXCEPT !.lst = <<r.val>> \o @,
                                            !.overall = r.rest]
                /\ UNCHANGED <<fn, byte_array, pc, locals, steps, ret, exc>>

\* One iteration of: while overall: item, overall = per_item_callback(overall);
\* lst.append(item)
take_list_item ==
    /\ pc = "take_list_loop"
    /\ lframe.overall # <<>>
    /\ \E r \in {per_item_callback(lframe.overall)} :
           IF r.exc # NoExc THEN Propagate(r.exc)
           ELSE /\ lframe' = [lframe EXCEPT !.lst = Append(@, r.val),
                                            !.overall = r.rest]
                /\ UNCHANGED <<fn, byte_array, pc, locals, steps, ret, exc>>

\* return lst, rest
take_list_end ==
    /\ pc = "take_list_loop"
    /\ lframe.overall = <<>>
    /\ IF lframe.site = "take_list"
       THEN /\ ret' = <<lframe.lst, lframe.rest>>
            /\ pc' = "returned"
            /\ UNCHANGED <<fn, byte_array, locals, lframe, steps, exc>>
       ELSE Advance(lframe.site,
                    [locals EXCEPT ![lframe.site] = lframe.lst,
                                   !.blob = lframe.rest],
                    AfterList(lframe.site))

---------------------------------------------------------------------------
(* SSHCertificate.from_bytes *)

take_rsa_cert(raw_pubkey, b) ==
    LET m == take_u32(b)
        mcut == Clamp(m.val, Len(m.rest))
        e == take_u32(Drop(m.rest, mcut))
    IN  IF m.exc # NoExc THEN m
        ELSE IF e.exc # NoExc THEN e
        ELSE Return([raw |-> raw_pubkey, modulus |-> Prefix(m.rest, mcut),
                     exponent |-> Prefix(e.rest, Clamp(e.val, Len(e.rest)))],
                    <<>>)

\* name, blob = reader(blob), as the statement at pc = name
ReadField(name, result, next) ==
    /\ pc = name
    /\ \E r \in {result} :
          IF r.exc # NoExc THEN Propagate(r.exc)
          ELSE Advance(name, [locals EXCEPT ![name] = r.val, !.blob = r.rest], next)

\* if ' ' in byte_array: blob = byte_array.split(' ')[1] else: blob =
\* byte_array; blob = base64.b64decode(blob)
decode_blob ==
    /\ pc = "b64decode"
    /\ \E r \in {b64decode(IF has_space(byte_array) THEN second_token(byte_array)
                             ELSE byte_array)} :
          IF r.exc # NoExc THEN Propagate(r.exc)
          ELSE Advance("b64decode", [locals EXCEPT !.blob = r.val], "key_type")

read_key_type ==
    ReadField("key_type", take_pascal_string(locals.blob), "pubkey_parts")

\* One assignment pubkey_parts[name], blob = take_pascal_bytestring(blob) of
\* the branch of the key type: the next field it has not read yet.
read_pubkey_part ==
    /\ pc = "pubkey_parts"
    /\ LET fields == pubkey_fields(locals.key_type)
           i == Cardinality(DOMAIN locals.pubkey_parts) + 1
       IN  /\ fields # <<>>
           /\ \E r \in {take_pascal_bytestring(locals.blob)} :
              IF r.exc # NoExc THEN Propagate(r.exc)
              ELSE Advance(fields[i],
                           [locals EXCEPT
                              !.pubkey_parts = (fields[i] :> r.val) @@ @,
                              !.blob = r.rest],
                           IF i = Len(fields) THEN "serial" ELSE "pubkey_parts")

\* else: raise UnsupportedKeyTypeError(key_type)
unsupported_key_type ==
    /\ pc = "pubkey_parts"
    /\ pubkey_fields(locals.key_type) = <<>>
    /\ Propagate(Raise("UnsupportedKeyTypeError", locals.key_type).exc)

read_serial == ReadField("serial", take_u64(locals.blob), "cert_type")

\* cert_type, blob = take_u32(blob); cert_type = CertType(cert_type)
read_cert_type ==
    /\ pc = "cert_type"
    /\ \E r \in {take_u32(locals.blob)} :
           IF r.exc # NoExc THEN Propagate(r.exc)
           ELSE IF CertType(r.val) = ""
           THEN Propagate(Raise("ValueError", r.val).exc)
           ELSE Advance("cert_type",
                        [locals EXCEPT !.cert_type = CertType(r.val),
                                       !.blob = r.rest],
                        "key_id")

read_key_id == ReadField("key_id", take_pascal_string(locals.blob), "principals")

\* name, blob = take_u64(blob); name = datetime.utcfromtimestamp(name)
ReadTimestamp(name, next) ==
    /\ pc = name
    /\ \E r \in {take_u64(locals.blob)} :
           IF r.exc # NoExc THEN Propagate(r.exc)
           ELSE IF utcfromtimestamp_errors(r.val) # {}
           THEN \E type \in utcfromtimestamp_errors(r.val) :
                    Propagate(Raise(type, r.val).exc)
           ELSE Advance(name,
                        [locals EXCEPT ![name] = utcfromtimestamp(r.val),
                                       !.blob = r.rest],
                        next)

read_valid_after == ReadTimestamp("valid_after", "valid_before")

read_valid_before == ReadTimestamp("valid_before", "crits")

read_unknown ==
    ReadField("unknown", take_pascal_bytestring(locals.blob), "raw_ca")

read_raw_ca ==
    ReadField("raw_ca", take_pascal_bytestring(locals.blob), "ca_cert_type")

\* ca_cert_type, raw_ca_rest = take_pascal_string(raw_ca)
read_ca_cert_type ==
    /\ pc = "ca_cert_type"
    /\ \E r \in {take_pascal_string(locals.raw_ca)} :
           IF r.exc # NoExc THEN Propagate(r.exc)
           ELSE Advance("ca_cert_type",
                        [locals EXCEPT !.ca_cert_type = r.val,
                                       !.raw_ca_rest = r.rest],
                        "ca_cert")

\* if ca_cert_type == 'ssh-rsa': ca_cert = take_rsa_cert(raw_ca, raw_ca_rest)
\* else: raise UnsupportedCertificateTypeError(ca_cert_type)
read_ca_cert ==
    /\ pc = "ca_cert"
    /\ LET r == take_rsa_cert(locals.raw_ca, locals.raw_ca_rest)
       IN  IF locals.ca_cert_type # SSH_RSA
           THEN Propagate(Raise("UnsupportedCertificateTypeError",
                                locals.ca_cert_type).exc)
           ELSE IF r.exc # NoExc THEN Propagate(r.exc)
           ELSE Advance("ca_cert", [locals EXCEPT !.ca_cert = r.val], "signature")

\* SSHCertificate(serial, cert_type, key_id, principals, valid_after,
\* valid_before, crits, exts, ca_cert, signature, key_type, pubkey_parts)
SSHCertificate(l, signature) ==
    [serial |-> l.serial, cert_type |-> l.cert_type, key_id |-> l.key_id,
     principals |-> l.principals, valid_after |-> l.valid_after,
     valid_before |-> l.valid_before, crits |-> l.crits, exts |-> l.exts,
     ca |-> l.ca_cert, signature |-> signature, key_type |-> l.key_type,
     pubkey_parts |-> l.pubkey_parts]

\* signature = blob; return SSHCertificate(...)
return_certificate ==
    /\ pc = "signature"
    /\ locals' = [locals EXCEPT !.signature = locals.blob]
    /\ ret' = SSHCertificate(locals, locals.blob)
    /\ pc' = "returned"
    /\ steps' = Append(steps, "signature")
    /\ UNCHANGED <<fn, byte_array, lframe, exc>>

Next ==
    \/ invoke
    \/ call_take_u32
    \/ call_take_u64
    \/ call_take_pascal_bytestring
    \/ call_take_pascal_string
    \/ take_list_begin
    \/ take_list_item
    \/ take_list_end
    \/ decode_blob
    \/ read_key_type
    \/ read_pubkey_part
    \/ unsupported_key_type
    \/ read_serial
    \/ read_cert_type
    \/ read_key_id
    \/ read_valid_after
    \/ read_valid_before
    \/ read_unknown
    \/ read_raw_ca
    \/ read_ca_cert_type
    \/ read_ca_cert
    \/ return_certificate

Spec == Init /\ [][Next]_vars

\* A call is a sequential program: a statement that can run does run.
FairSpec == Spec /\ WF_vars(Next)

---------------------------------------------------------------------------
(* The properties *)

Finished == pc \in {"returned", "raised"}

\* The bytes b starts with are exactly e
StartsWith(b, e) == Len(b) >= Len(e) /\ SubSeq(b, 1, Len(e)) = e

\* The 4-byte length prefix of b declares more bytes than follow it
DeclaresTooMuch(b) ==
    b[1] > 0 \/ b[2] > 0 \/ b[3] * 256 + b[4] > Len(b) - 4

\* The number of bytes of a returned field: a byte string's length, a
\* text's length once encoded
ByteLen(f, val) ==
    IF f = "take_pascal_string" THEN Len(encode_utf8(val)) ELSE Len(val)

\* C1: take_pascal_bytestring and take_pascal_string fail (struct.error, the
\* code's buffer underflow) whenever the declared length exceeds the bytes
\* that follow the prefix, and a value they return has exactly the declared
\* length.
C1_PascalNeverShort ==
    (fn \in {"take_pascal_bytestring", "take_pascal_string"}
     /\ Finished /\ Len(byte_array) >= 4)
    => /\ DeclaresTooMuch(byte_array)
          => pc = "raised" /\ exc.type = "struct.error"
       /\ pc = "returned"
          => ByteLen(fn, ret[1]) = byte_array[3] * 256 + byte_array[4]

\* C2: take_u32 (take_u64) on at least 4 (8) bytes returns the big-endian
\* value of the first 4 (8) bytes and the buffer without them, so that
\* writing the value back big-endian in front of the tail gives the buffer
\* again; on fewer bytes it raises struct.error and returns nothing.
C2_TakeInt ==
    (fn \in {"take_u32", "take_u64"} /\ Finished)
    => LET width == IF fn = "take_u32" THEN 4 ELSE 8
       IN  IF Len(byte_array) >= width
           THEN /\ pc = "returned"
                /\ Len(ret[1]) * 2 = width
                /\ \A i \in 1..Len(ret[1]) : ret[1][i] \in 0..65535
                /\ pack(ret[1]) \o ret[2] = byte_array
                /\ Len(ret[2]) = Len(byte_array) - width
           ELSE /\ pc = "raised"
                /\ exc.type = "struct.error"
                /\ DOMAIN ret = {}

C2_Witness ==
    /\ fn = "take_u64"
    /\ pc = "returned"
    /\ ret[1] = <<258, 772, 1286, 1800>>
    /\ ret[2] = <<7, 7>>

\* The Key-Type Registry: the fields of each registered key type, in order
RegistryFields(key_type) ==
    IF key_type = RSA_CERT THEN <<"nonce", "n", "e">>
    ELSE IF key_type = ED25519_CERT THEN <<"nonce", "pubkey">>
    ELSE <<"nonce", "p", "q", "g", "pubkey">>

Registered == {RSA_CERT, ED25519_CERT, DSS_CERT}

\* A sample certificate that is well formed: a registered key type, a
\* cert_type of 1 or 2, an ssh-rsa CA key
WellFormed(c) ==
    /\ c.key_type \in Registered
    /\ c.cert_type \in {<<0, 1>>, <<0, 2>>}
    /\ c.ca_type = SSH_RSA

\* The Certificate a well-formed c decodes to
Decoded(c) ==
    [serial |-> c.serial,
     cert_type |-> IF c.cert_type = <<0, 1>> THEN "SSH2_CERT_TYPE_USER"
                   ELSE "SSH2_CERT_TYPE_HOST",
     key_id |-> c.key_id, principals |-> c.principals,
     valid_after |-> [utc |-> c.valid_after],
     valid_before |-> [utc |-> c.valid_before],
     crits |-> c.crits, exts |-> c.exts,
     ca |-> [raw |-> put_ca(c), modulus |-> c.modulus, exponent |-> c.exponent],
     signature |-> c.signature, key_type |-> c.key_type,
     pubkey_parts |->
        LET names == RegistryFields(c.key_type)
        IN  [name \in {names[i] : i \in 1..Len(names)} |->
               c.parts[CHOOSE i \in 1..Len(names) : names[i] = name]]]

\* The statements of a complete decode, in order
DecodeOrder(key_type) ==
    <<"b64decode", "key_type">> \o RegistryFields(key_type)
    \o <<"serial", "cert_type", "key_id", "principals", "valid_after",
         "valid_before", "crits", "exts", "unknown", "raw_ca", "ca_cert_type",
         "ca_cert", "signature">>

Lines == [c \in SampleCerts |-> {BareLine(Wire[c]), KeyLine(c.key_type, Wire[c])} \cap CertLines]

\* C3: from_bytes on every well-formed certificate of a registered key type
\* reads the fields in the order of the wire format and returns each field
\* as encoded, lists in source order, the signature being what remains after
\* the CA record.
C3_WellFormedDecodes ==
    (fn = "from_bytes" /\ Finished)
    => \A c \in SampleCerts :
          (WellFormed(c) /\ byte_array \in Lines[c])
          => /\ pc = "returned"
             /\ steps = DecodeOrder(c.key_type)
             /\ ret = Decoded(c)

ListWire == [l \in SampleLists |-> put_list(l)]

\* C4: take_list on a buffer that starts with an envelope of N >= 0 whole
\* items returns those N items in order and, as the tail, the bytes after the
\* envelope, with nothing of the envelope left over.
C4_TakeListWhole ==
    (fn = "take_list" /\ Finished)
    => \A l \in SampleLists :
          StartsWith(byte_array, ListWire[l])
          => /\ pc = "returned"
             /\ ret = <<l, SubSeq(byte_array, Len(ListWire[l]) + 1, Len(byte_array))>>
             /\ lframe.overall = <<>>

C4_Witness ==
    /\ fn = "take_list"
    /\ pc = "returned"
    /\ ret = << << <<98, 233>>, <<>> >>, <<7>> >>
    /\ byte_array = ListWire[ret[1]] \o <<7>>

RECURSIVE WholeItems(_)
\* env is a concatenation of whole length-prefixed items
WholeItems(env) ==
    \/ env = <<>>
    \/ /\ Len(env) >= 4
       /\ ~DeclaresTooMuch(env)
       /\ WholeItems(SubSeq(env, 5 + env[3] * 256 + env[4], Len(env)))

\* C5: take_list fails, and returns no sequence, whenever the bytes of its
\* envelope are not a concatenation of whole items.
C5_MalformedListFails ==
    (/\ fn = "take_list"
     /\ Finished
     /\ Len(byte_array) >= 4
     /\ ~DeclaresTooMuch(byte_array)
     /\ ~WholeItems(SubSeq(byte_array, 5, 4 + byte_array[3] * 256 + byte_array[4])))
    => pc = "raised" /\ DOMAIN ret = {}

C6_Witness ==
    /\ fn = "from_bytes"
    /\ pc = "raised"
    /\ exc = [type |-> "ValueError", arg |-> <<0, 3>>]
    /\ steps[Len(steps)] = "serial"

\* C6: once the key type, the key material and the serial are read, a
\* 32-bit cert_type other than 1 or 2 makes from_bytes fail with ValueError
\* (the enum's invalid cert type), 1 and 2 become USER and HOST, and a
\* returned certificate has one of the two.
C6_CertType ==
    /\ [][(fn = "from_bytes" /\ pc = "cert_type" /\ Len(locals.blob) >= 4)
          => LET v == SubSeq(locals.blob, 1, 4)
             IN  IF v = <<0, 0, 0, 1>>
                 THEN pc' = "key_id" /\ locals'.cert_type = "SSH2_CERT_TYPE_USER"
                 ELSE IF v = <<0, 0, 0, 2>>
                 THEN pc' = "key_id" /\ locals'.cert_type = "SSH2_CERT_TYPE_HOST"
                 ELSE /\ pc' = "raised"
                      /\ exc'.type = "ValueError"
                      /\ ret' = ret]_vars
    /\ []((fn = "from_bytes" /\ pc = "returned")
          => ret.cert_type \in {"SSH2_CERT_TYPE_USER", "SSH2_CERT_TYPE_HOST"})

C7_Witness ==
    /\ fn = "from_bytes"
    /\ pc = "raised"
    /\ exc = [type |-> "UnsupportedKeyTypeError", arg |-> UNKNOWN_CERT]
    /\ locals.blob # <<>>

\* C7: a decoded key-type identifier that is none of the three registered
\* ones makes from_bytes fail with UnsupportedKeyTypeError carrying that
\* identifier, whatever follows it, and nothing after it is read.
C7_UnsupportedKeyType ==
    /\ [][(fn = "from_bytes" /\ pc = "pubkey_parts"
           /\ locals.key_type \notin Registered)
          => /\ pc' = "raised"
             /\ exc' = [type |-> "UnsupportedKeyTypeError", arg |-> locals.key_type]
             /\ UNCHANGED <<locals, steps, ret>>]_vars
    /\ []((pc = "raised" /\ exc.type = "UnsupportedKeyTypeError")
          => /\ steps = <<"b64decode", "key_type">>
             /\ locals.key_type \notin Registered
             /\ locals.pubkey_parts = EmptyDict)

\* C8: once everything up to the reserved field is read, a CA envelope
\* whose identifier is not ssh-rsa makes from_bytes fail with
\* UnsupportedCertificateTypeError carrying that identifier; with ssh-rsa
\* the returned ca holds the two length-prefixed byte strings that follow
\* the identifier, and the whole CA envelope as its raw bytes.
C8_CaKey ==
    fn = "from_bytes"
    => /\ (pc = "raised" /\ steps # <<>> /\ steps[Len(steps)] = "ca_cert_type"
           /\ locals.ca_cert_type # SSH_RSA)
          => exc = [type |-> "UnsupportedCertificateTypeError",
                    arg |-> locals.ca_cert_type]
       /\ pc = "returned"
          => /\ locals.ca_cert_type = SSH_RSA
             /\ ret.ca.raw = locals.raw_ca
             /\ StartsWith(locals.raw_ca,
                           put_text(SSH_RSA) \o put_bytes(ret.ca.modulus)
                           \o put_bytes(ret.ca.exponent))

C9_Witness ==
    /\ fn = "from_bytes"
    /\ pc = "raised"
    /\ Len(steps) >= 12
    /\ DOMAIN ret = {}

\* C9: from_bytes is all or nothing.  A step that fails ends the call there:
\* it changes no local, no later step runs, and nothing is returned; a
\* certificate is returned only when every step has been completed, in order.
C9_AllOrNothing ==
    /\ [][pc' = "raised" => UNCHANGED <<locals, steps, ret>>]_vars
    /\ [][pc # "raised"]_vars
    /\ []((fn = "from_bytes" /\ pc # "returned") => DOMAIN ret = {})
    /\ []((fn = "from_bytes" /\ pc = "returned")
          => steps = DecodeOrder(ret.key_type))

C10_Witness ==
    /\ pc = "take_list_loop"
    /\ lframe.lst # <<>>
    /\ lframe.lst[Len(lframe.lst)] = <<>>
    /\ lframe.overall # <<>>

\* C10: every call finishes, returning or raising, and every iteration of
\* the loop of take_list that does not fail shortens what is left of the
\* envelope by at least the 4 bytes of a length prefix.
C10_Terminates ==
    /\ <>Finished
    /\ [][(pc = "take_list_loop" /\ pc' = "take_list_loop")
          => Len(lframe'.overall) + 4 <= Len(lframe.overall)]_vars

=============================================================================
